---- MODULE Spec2Model ----
(***************************************************************************)
(* A model of the packet-inspection pipeline of cognitive-dashboard:       *)
(*                                                                         *)
(*   - ConcurrentRingBuffer<T>            backend/src/sniffer_engine.cpp   *)
(*   - the capture engine (start/stop/get_write_index and capture_loop)    *)
(*                                        backend/src/sniffer_engine.cpp   *)
(*   - SimpleFlowEnforcer                 backend/app/firewall_enforce.h   *)
(*                                                                         *)
(* The three components share no state, so each has its own specification  *)
(* (RingSpec, CaptureSpec / FairCaptureSpec, EnforcerSpec) over the same   *)
(* variables; a specification leaves the other components' variables       *)
(* unchanged.                                                              *)
(*                                                                         *)
(* Every load and every store of a std::atomic is one step, and steps of   *)
(* different threads interleave freely.  The ring buffer's acquire load of *)
(* the other thread's index may return a value older than the latest       *)
(* store (a release store followed by an acquire load of another atomic is *)
(* not ordered); a load that returns the value of a release store sees the *)
(* slot accesses ordered before that store.                                *)
(***************************************************************************)
EXTENDS Integers, Sequences, FiniteSets, TLC

(***************************************************************************)
(* Bounds of the model.                                                    *)
(***************************************************************************)
\* capacities 2..MaxCapacity are tried for ConcurrentRingBuffer(capacity)
MaxCapacity == 4
\* number of records the producer gets accepted in one behaviour
MaxPushes == 5
\* records are drawn from 1..NumItems
NumItems == 2

\* number of capture threads start_capture_engine creates in one behaviour
MaxWorkers == 2
\* number of packets one capture thread writes in one behaviour
MaxPackets == 2
MaxCallers == 2

\* #define MAX_BUFFER_SLOTS 1024
MAX_BUFFER_SLOTS == 1024
\* std::uniform_int_distribution<> distrib(100, 1500)
MIN_PACKET_LEN == 100
MAX_PACKET_LEN == 1500
\* slot.is_alert = (flow_counter % 50 == 0)
ALERT_PERIOD == 50
\* get_decision: if (len > 1500)
JUMBO_LIMIT == 1500

Items == 1..NumItems

\* a value-initialised T (std::vector<T> buffer_(capacity))
DefaultItem == 0

VARIABLES
    \* ---- ConcurrentRingBuffer<T> ----
    capacity_,      \* const size_t capacity_
    buffer_,        \* std::vector<T> buffer_
    head_,          \* std::atomic<size_t> head_
    tail_,          \* std::atomic<size_t> tail_
    \* the producer thread, inside or between calls of push
    p_pc,           \* "idle" | "check" | "write" | "store"
    p_item,         \* push's argument item
    current_tail,   \* push's local
    next_tail,      \* push's local
    push_ret,       \* value returned by the last push: "none" | "true" | "false"
    \* the consumer thread, inside or between calls of pop
    c_pc,           \* "idle" | "check" | "read" | "store"
    current_head,   \* pop's local
    out,            \* the caller's record, pop's argument item
    pop_ret,        \* value returned by the last pop: "none" | "true" | "false"
    \* history of the calls (not program state)
    pushed,         \* records accepted by the pushes that returned true
    popped,         \* records returned by the pops that returned true
    pushes_since_pop, \* pushes that returned true since a pop last returned true
    \* the memory order of the two indices
    head_unseen,    \* stores of head_ newer than the value push last loaded
    tail_unseen,    \* stores of tail_ newer than the value pop last loaded
    \* ---- capture engine: globals ----
    g_stop_capture,     \* std::atomic<bool> g_stop_capture
    g_write_index,      \* std::atomic<int> g_write_index
    g_shared_buffer,    \* C_PacketData* g_shared_buffer
    g_capture_thread,   \* std::thread g_capture_thread: "joinable" | "empty"
    shm,                \* the caller's C_PacketData array, slot index -> record
                        \* (slots never written are absent and read as ZeroSlot)
    \* ---- capture engine: the threads running capture_loop ----
    w_pc,               \* position of each thread in capture_loop
    local_write_index,  \* int local_write_index
    flow_counter,       \* uint32_t flow_counter
    slot,               \* C_PacketData& slot: the buffer it was bound to
    \* ---- capture engine: the control thread ----
    s_pc,               \* position in start_capture_engine: "idle" | "buffer"
                        \* | "create" | "detach"
    s_buffer,           \* start_capture_engine's argument buffer
    api_ret,            \* the last call of the C interface and the int it returned
    \* history (not program state)
    stop_requested,     \* threads that were running when stop_capture_engine was called
    \* ---- SimpleFlowEnforcer ----
    default_action_,    \* std::atomic<FirewallAction> default_action_
    enforced_flows_,    \* std::map<FlowKey, FirewallAction> enforced_flows_
    \* the caller of the enforcer
    e_op,               \* the member function called last, "none" at first
    e_flow,             \* flow of the packet given to the last get_decision
    e_len,              \* len given to the last get_decision
    decision,           \* PacketDecision returned by the last get_decision
    default_ret,        \* value returned by the last get_default_action
    \* history (not program state)
    last_set_default,   \* argument of the last set_default_action, "never" at first
    \* ---- the external reader of the shared buffer ----
    r_index,            \* the reader's last-read index: the next slot it reads
    \* ---- control-plane threads inside enforce_flow_policy ----
    t_pc,               \* position of each caller: "idle" | "lookup" | "assign"
    t_flow,             \* its argument flow_id
    t_action,           \* its argument action
    table_broken,       \* a data race on enforced_flows_ has damaged the map
    \* history (not program state)
    null_started        \* threads created by a start_capture_engine(_, nullptr)

ringVars == <<capacity_, buffer_, head_, tail_, p_pc, p_item, current_tail,
              next_tail, push_ret, c_pc, current_head, out, pop_ret,
              pushed, popped, pushes_since_pop, head_unseen, tail_unseen>>

captureVars == <<g_stop_capture, g_write_index, g_shared_buffer,
                 g_capture_thread, shm, w_pc, local_write_index, flow_counter,
                 slot, api_ret, s_pc, s_buffer>>

enforcerVars == <<default_action_, enforced_flows_, e_op, e_flow, e_len,
                  decision, default_ret, last_set_default>>

readerVars == <<r_index>>

sinkVars == <<null_started, stop_requested>>

callerVars == <<t_pc, t_flow, t_action, table_broken>>

vars == <<ringVars, captureVars, enforcerVars, readerVars, sinkVars,
          callerVars>>

\* what the steps of one component leave alone
notRing == <<captureVars, enforcerVars, readerVars, sinkVars, callerVars>>
notCapture == <<ringVars, enforcerVars, readerVars, sinkVars, callerVars>>
notEnforcer == <<ringVars, captureVars, readerVars, sinkVars, callerVars>>
notTable == <<ringVars, captureVars, readerVars, sinkVars, default_action_,
              e_op, e_flow, e_len, decision, default_ret, last_set_default>>

(***************************************************************************)
(* ConcurrentRingBuffer                                                    *)
(***************************************************************************)

\* ConcurrentRingBuffer(size_t capacity)
RingInit ==
    /\ capacity_ \in 2..MaxCapacity
    /\ buffer_ = [i \in 0..(capacity_ - 1) |-> DefaultItem]
    /\ head_ = 0
    /\ tail_ = 0
    /\ p_pc = "idle"
    /\ p_item = DefaultItem
    /\ current_tail = 0
    /\ next_tail = 0
    /\ push_ret = "none"
    /\ c_pc = "idle"
    /\ current_head = 0
    /\ out = DefaultItem
    /\ pop_ret = "none"
    /\ pushed = <<>>
    /\ popped = <<>>
    /\ pushes_since_pop = 0
    /\ head_unseen = 0
    /\ tail_unseen = 0

\* The indices are atomics written with release stores and read with
\* acquire loads.  A load of the other thread's index is not ordered after
\* the loading thread's own earlier store, so it returns the latest value or
\* an older one, though never one older than the thread has already read.
\* HeadSeen(k) and TailSeen(k) are the values the index had k stores ago.
HeadSeen(k) == (head_ + capacity_ - k) % capacity_

TailSeen(k) == (tail_ + capacity_ - k) % capacity_

\* push, lines 35-36: the call, the load of tail_ and the candidate position
push_load_tail(item) ==
    /\ p_pc = "idle"
    /\ Len(pushed) < MaxPushes
    /\ p_item' = item
    /\ current_tail' = tail_
    /\ next_tail' = (tail_ + 1) % capacity_
    /\ p_pc' = "check"
    /\ UNCHANGED <<head_unseen, tail_unseen,
                   capacity_, buffer_, head_, tail_, push_ret, c_pc,
                   current_head, out, pop_ret, pushed, popped,
                   pushes_since_pop>>

\* push_full with the slot written before the full check
push_full_writes_slot(k) ==
    /\ p_pc = "check"
    /\ k \in 0..head_unseen
    /\ next_tail = HeadSeen(k)
    /\ buffer_' = [buffer_ EXCEPT ![current_tail] = p_item]
    /\ push_ret' = "false"
    /\ p_pc' = "idle"
    /\ head_unseen' = k
    /\ UNCHANGED <<tail_unseen,
                   capacity_, head_, tail_, p_item, current_tail,
                   next_tail, c_pc, current_head, out, pop_ret, pushed,
                   popped, pushes_since_pop>>

\* push, lines 38-41: the load of head_ finds the buffer full; return false
push_full(k) ==
    /\ p_pc = "check"
    /\ k \in 0..head_unseen
    /\ next_tail = HeadSeen(k)
    /\ push_ret' = "false"
    /\ p_pc' = "idle"
    /\ head_unseen' = k
    /\ UNCHANGED <<tail_unseen,
                   capacity_, buffer_, head_, tail_, p_item, current_tail,
                   next_tail, c_pc, current_head, out, pop_ret, pushed,
                   popped, pushes_since_pop>>

\* push_not_full with the full check dropped
push_never_full(k) ==
    /\ p_pc = "check"
    /\ k \in 0..head_unseen
    /\ p_pc' = "write"
    /\ head_unseen' = k
    /\ UNCHANGED <<tail_unseen,
                   capacity_, buffer_, head_, tail_, p_item, current_tail,
                   next_tail, push_ret, c_pc, current_head, out, pop_ret,
                   pushed, popped, pushes_since_pop>>

\* push, line 38: the load of head_ finds a free slot
push_not_full(k) ==
    /\ p_pc = "check"
    /\ k \in 0..head_unseen
    /\ next_tail # HeadSeen(k)
    /\ p_pc' = "write"
    /\ head_unseen' = k
    /\ UNCHANGED <<tail_unseen,
                   capacity_, buffer_, head_, tail_, p_item, current_tail,
                   next_tail, push_ret, c_pc, current_head, out, pop_ret,
                   pushed, popped, pushes_since_pop>>

\* push, line 43: buffer_[current_tail] = item
push_write ==
    /\ p_pc = "write"
    /\ buffer_' = [buffer_ EXCEPT ![current_tail] = p_item]
    /\ p_pc' = "store"
    /\ UNCHANGED <<head_unseen, tail_unseen,
                   capacity_, head_, tail_, p_item, current_tail, next_tail,
                   push_ret, c_pc, current_head, out, pop_ret, pushed,
                   popped, pushes_since_pop>>

\* push_store publishing one slot more than was written
push_store_two_slots ==
    /\ p_pc = "store"
    /\ tail_' = (next_tail + 1) % capacity_
    /\ push_ret' = "true"
    /\ p_pc' = "idle"
    /\ pushed' = Append(pushed, p_item)
    /\ pushes_since_pop' = pushes_since_pop + 1
    /\ tail_unseen' = tail_unseen + 1
    /\ UNCHANGED <<head_unseen,
                   capacity_, buffer_, head_, p_item, current_tail,
                   next_tail, c_pc, current_head, out, pop_ret, popped>>

\* push, lines 44-45: tail_.store(next_tail); return true
push_store ==
    /\ p_pc = "store"
    /\ tail_' = next_tail
    /\ push_ret' = "true"
    /\ p_pc' = "idle"
    /\ pushed' = Append(pushed, p_item)
    /\ pushes_since_pop' = pushes_since_pop + 1
    /\ tail_unseen' = tail_unseen + 1
    /\ UNCHANGED <<head_unseen,
                   capacity_, buffer_, head_, p_item, current_tail,
                   next_tail, c_pc, current_head, out, pop_ret, popped>>

\* pop, line 49: the call and the load of head_
pop_load_head ==
    /\ c_pc = "idle"
    /\ Len(popped) <= MaxPushes
    /\ current_head' = head_
    /\ c_pc' = "check"
    /\ UNCHANGED <<head_unseen, tail_unseen,
                   capacity_, buffer_, head_, tail_, p_pc, p_item,
                   current_tail, next_tail, push_ret, out, pop_ret, pushed,
                   popped, pushes_since_pop>>

\* pop_empty with the slot copied to the caller before the empty check
pop_empty_copies_slot(k) ==
    /\ c_pc = "check"
    /\ k \in 0..tail_unseen
    /\ current_head = TailSeen(k)
    /\ out' = buffer_[current_head]
    /\ pop_ret' = "false"
    /\ c_pc' = "idle"
    /\ tail_unseen' = k
    /\ UNCHANGED <<head_unseen,
                   capacity_, buffer_, head_, tail_, p_pc, p_item,
                   current_tail, next_tail, push_ret, current_head,
                   pushed, popped, pushes_since_pop>>

\* pop, lines 50-53: the load of tail_ finds the buffer empty; return false
pop_empty(k) ==
    /\ c_pc = "check"
    /\ k \in 0..tail_unseen
    /\ current_head = TailSeen(k)
    /\ pop_ret' = "false"
    /\ c_pc' = "idle"
    /\ tail_unseen' = k
    /\ UNCHANGED <<head_unseen,
                   capacity_, buffer_, head_, tail_, p_pc, p_item,
                   current_tail, next_tail, push_ret, current_head, out,
                   pushed, popped, pushes_since_pop>>

\* pop_not_empty with the empty check dropped
pop_never_empty(k) ==
    /\ c_pc = "check"
    /\ k \in 0..tail_unseen
    /\ c_pc' = "read"
    /\ tail_unseen' = k
    /\ UNCHANGED <<head_unseen,
                   capacity_, buffer_, head_, tail_, p_pc, p_item,
                   current_tail, next_tail, push_ret, current_head, out,
                   pop_ret, pushed, popped, pushes_since_pop>>

\* pop, line 50: the load of tail_ finds a record
pop_not_empty(k) ==
    /\ c_pc = "check"
    /\ k \in 0..tail_unseen
    /\ current_head # TailSeen(k)
    /\ c_pc' = "read"
    /\ tail_unseen' = k
    /\ UNCHANGED <<head_unseen,
                   capacity_, buffer_, head_, tail_, p_pc, p_item,
                   current_tail, next_tail, push_ret, current_head, out,
                   pop_ret, pushed, popped, pushes_since_pop>>

\* pop, line 55: item = buffer_[current_head]
pop_read ==
    /\ c_pc = "read"
    /\ out' = buffer_[current_head]
    /\ c_pc' = "store"
    /\ UNCHANGED <<head_unseen, tail_unseen,
                   capacity_, buffer_, head_, tail_, p_pc, p_item,
                   current_tail, next_tail, push_ret, current_head, pop_ret,
                   pushed, popped, pushes_since_pop>>

\* pop_store with the read index left where it was
pop_store_no_advance ==
    /\ c_pc = "store"
    /\ head_' = current_head
    /\ pop_ret' = "true"
    /\ c_pc' = "idle"
    /\ popped' = Append(popped, out)
    /\ pushes_since_pop' = 0
    /\ head_unseen' = head_unseen + 1
    /\ UNCHANGED <<tail_unseen,
                   capacity_, buffer_, tail_, p_pc, p_item, current_tail,
                   next_tail, push_ret, current_head, out, pushed>>

\* pop, lines 56-57: head_.store((current_head + 1) % capacity_); return true
pop_store ==
    /\ c_pc = "store"
    /\ head_' = (current_head + 1) % capacity_
    /\ pop_ret' = "true"
    /\ c_pc' = "idle"
    /\ popped' = Append(popped, out)
    /\ pushes_since_pop' = 0
    /\ head_unseen' = head_unseen + 1
    /\ UNCHANGED <<tail_unseen,
                   capacity_, buffer_, tail_, p_pc, p_item, current_tail,
                   next_tail, push_ret, current_head, out, pushed>>

(***************************************************************************)
(* The capture engine                                                      *)
(***************************************************************************)

Workers == 1..MaxWorkers

\* nullptr
NULL == "nullptr"

\* the buffers a caller passes to start_capture_engine
Buffers == {"buffer"}

\* the readings of std::chrono::system_clock::now(), in seconds
Times == {1}

\* the values distrib(gen) returns
Lengths == {MIN_PACKET_LEN, MAX_PACKET_LEN}

\* a slot of the caller's array that no capture thread has written
ZeroSlot == [timestamp |-> 0, length |-> 0, flow_hash |-> 0, is_alert |-> FALSE]

\* g_shared_buffer[i]
SlotAt(i) == IF i \in DOMAIN shm THEN shm[i] ELSE ZeroSlot

\* shm with field f of slot i set to v
WriteField(i, f, v) ==
    [j \in DOMAIN shm \cup {i} |->
        IF j = i THEN [SlotAt(i) EXCEPT ![f] = v] ELSE shm[j]]

\* a thread that is inside capture_loop
Running(w) == w_pc[w] \notin {"unborn", "exited", "crashed"}

\* no thread has dereferenced a null g_shared_buffer
ProcessAlive == \A w \in Workers : w_pc[w] # "crashed"

\* the C interface has not been called yet
NoCall == [op |-> "none", value |-> 0]

\* the call op of the C interface returned value
Returned(op, value) == [op |-> op, value |-> value]

\* lines 108-117: the globals as initialised at load time
CaptureInit ==
    /\ g_stop_capture = FALSE
    /\ g_write_index = 0
    /\ g_shared_buffer = NULL
    /\ g_capture_thread = "empty"
    /\ shm = [i \in {} |-> ZeroSlot]
    /\ w_pc = [w \in Workers |-> "unborn"]
    /\ local_write_index = [w \in Workers |-> 0]
    /\ flow_counter = [w \in Workers |-> 0]
    /\ slot = [w \in Workers |-> NULL]
    /\ api_ret = NoCall
    /\ s_pc = "idle"
    /\ s_buffer = NULL

\* One control thread calls start_capture_engine and stop_capture_engine,
\* one call after the other; the capture threads run between the steps of a
\* call.

\* start_capture_engine(interface_name, buffer), lines 186-193: the call, the
\* test of g_capture_thread.joinable() with return 1, and the store of false
\* to g_stop_capture
start_capture_engine(buffer) ==
    /\ ProcessAlive
    /\ s_pc = "idle"
    /\ \E w \in Workers : w_pc[w] = "unborn"
    /\ IF g_capture_thread = "joinable"
       THEN /\ api_ret' = Returned("start_capture_engine", 1)
            /\ UNCHANGED <<g_stop_capture, s_pc, s_buffer>>
       ELSE /\ g_stop_capture' = FALSE
            /\ s_pc' = "buffer"
            /\ s_buffer' = buffer
            /\ UNCHANGED api_ret
    /\ UNCHANGED <<g_write_index, g_shared_buffer, g_capture_thread, shm,
                   w_pc, local_write_index, flow_counter, slot>>

\* start_capture_engine, line 194: g_shared_buffer = buffer
start_set_buffer ==
    /\ ProcessAlive
    /\ s_pc = "buffer"
    /\ g_shared_buffer' = s_buffer
    /\ s_buffer' = NULL
    /\ s_pc' = "create"
    /\ UNCHANGED <<g_stop_capture, g_write_index, g_capture_thread, shm,
                   w_pc, local_write_index, flow_counter, slot, api_ret>>

\* start_capture_engine, line 199: g_capture_thread = std::thread(...);
\* created says whether the constructor succeeds.  The new thread runs from
\* here on.  When the constructor throws, lines 203-205 return 2.
start_create_thread(created) ==
    /\ ProcessAlive
    /\ s_pc = "create"
    /\ IF created
       THEN LET w == CHOOSE v \in Workers :
                        /\ w_pc[v] = "unborn"
                        /\ \A u \in Workers : w_pc[u] = "unborn" => v <= u
            IN  /\ w_pc' = [w_pc EXCEPT ![w] = "loop"]
                /\ g_capture_thread' = "joinable"
                /\ s_pc' = "detach"
                /\ UNCHANGED api_ret
       ELSE /\ api_ret' = Returned("start_capture_engine", 2)
            /\ s_pc' = "idle"
            /\ UNCHANGED <<w_pc, g_capture_thread>>
    /\ UNCHANGED <<g_stop_capture, g_write_index, g_shared_buffer, shm,
                   local_write_index, flow_counter, slot, s_buffer>>

\* start_capture_engine, lines 200-202: g_capture_thread.detach(), which
\* leaves g_capture_thread not joinable, and return 0
start_detach ==
    /\ ProcessAlive
    /\ s_pc = "detach"
    /\ g_capture_thread' = "empty"
    /\ api_ret' = Returned("start_capture_engine", 0)
    /\ s_pc' = "idle"
    /\ UNCHANGED <<g_stop_capture, g_write_index, g_shared_buffer, shm,
                   w_pc, local_write_index, flow_counter, slot,
                   s_buffer>>

\* stop_capture_engine flipping the flag instead of setting it
stop_capture_engine_toggle ==
    /\ ProcessAlive
    /\ s_pc = "idle"
    /\ g_stop_capture' = ~g_stop_capture
    /\ api_ret' = Returned("stop_capture_engine", 0)
    /\ UNCHANGED <<g_write_index, g_shared_buffer, g_capture_thread, shm,
                   w_pc, local_write_index, flow_counter, slot>>
    /\ UNCHANGED <<s_pc, s_buffer>>

\* stop_capture_engine(), lines 209-217
stop_capture_engine ==
    /\ ProcessAlive
    /\ s_pc = "idle"
    /\ g_stop_capture' = TRUE
    /\ api_ret' = Returned("stop_capture_engine", 0)
    /\ UNCHANGED <<g_write_index, g_shared_buffer, g_capture_thread, shm,
                   w_pc, local_write_index, flow_counter, slot>>
    /\ UNCHANGED <<s_pc, s_buffer>>

\* get_write_index returning the initial value whatever has been published
get_write_index_initial ==
    /\ ProcessAlive
    /\ api_ret' = Returned("get_write_index", 0)
    /\ UNCHANGED <<g_stop_capture, g_write_index, g_shared_buffer,
                   g_capture_thread, shm, w_pc, local_write_index,
                   flow_counter, slot>>
    /\ UNCHANGED <<s_pc, s_buffer>>

\* get_write_index(), lines 219-222
get_write_index ==
    /\ ProcessAlive
    /\ api_ret' = Returned("get_write_index", g_write_index)
    /\ UNCHANGED <<g_stop_capture, g_write_index, g_shared_buffer,
                   g_capture_thread, shm, w_pc, local_write_index,
                   flow_counter, slot>>
    /\ UNCHANGED <<s_pc, s_buffer>>

\* capture_loop, line 144: the stop flag is set; leave the loop and return
loop_exit(w) ==
    /\ ProcessAlive
    /\ w_pc[w] = "loop"
    /\ g_stop_capture
    /\ w_pc' = [w_pc EXCEPT ![w] = "exited"]
    /\ UNCHANGED <<g_stop_capture, g_write_index, g_shared_buffer,
                   g_capture_thread, shm, local_write_index, flow_counter,
                   slot, api_ret>>
    /\ UNCHANGED <<s_pc, s_buffer>>

\* capture_loop, line 144: the stop flag is clear; begin an iteration
loop_iterate(w) ==
    /\ ProcessAlive
    /\ w_pc[w] = "loop"
    /\ ~g_stop_capture
    /\ flow_counter[w] < MaxPackets
    /\ w_pc' = [w_pc EXCEPT ![w] = "test"]
    /\ UNCHANGED <<g_stop_capture, g_write_index, g_shared_buffer,
                   g_capture_thread, shm, local_write_index, flow_counter,
                   slot, api_ret>>
    /\ UNCHANGED <<s_pc, s_buffer>>

\* capture_loop, line 153: if (g_shared_buffer); without a buffer the thread
\* sleeps (line 173) and is back at the loop condition
test_buffer(w) ==
    /\ ProcessAlive
    /\ w_pc[w] = "test"
    /\ w_pc' = [w_pc EXCEPT ![w] =
                    IF g_shared_buffer # NULL THEN "bind" ELSE "loop"]
    /\ UNCHANGED <<g_stop_capture, g_write_index, g_shared_buffer,
                   g_capture_thread, shm, local_write_index, flow_counter,
                   slot, api_ret>>
    /\ UNCHANGED <<s_pc, s_buffer>>

\* capture_loop, line 156: slot = g_shared_buffer[local_write_index], a second
\* read of the pointer, which start_capture_engine may have set to nullptr
\* since the test.  Forming the reference accesses nothing.
bind_slot(w) ==
    /\ ProcessAlive
    /\ w_pc[w] = "bind"
    /\ slot' = [slot EXCEPT ![w] = g_shared_buffer]
    /\ w_pc' = [w_pc EXCEPT ![w] = "timestamp"]
    /\ UNCHANGED <<g_stop_capture, g_write_index, g_shared_buffer,
                   g_capture_thread, shm, local_write_index, flow_counter,
                   api_ret>>
    /\ UNCHANGED <<s_pc, s_buffer>>

\* capture_loop, lines 157-158: slot.timestamp = now, the first store through
\* the reference; through a reference bound to a null pointer it kills the
\* process
write_timestamp(w, now) ==
    /\ ProcessAlive
    /\ w_pc[w] = "timestamp"
    /\ IF slot[w] = NULL
       THEN /\ w_pc' = [w_pc EXCEPT ![w] = "crashed"]
            /\ UNCHANGED shm
       ELSE /\ shm' = WriteField(local_write_index[w], "timestamp", now)
            /\ w_pc' = [w_pc EXCEPT ![w] = "length"]
    /\ UNCHANGED <<g_stop_capture, g_write_index, g_shared_buffer,
                   g_capture_thread, local_write_index, flow_counter, slot,
                   api_ret>>
    /\ UNCHANGED <<s_pc, s_buffer>>

\* capture_loop, line 159: slot.length = distrib(gen)
write_length(w, len) ==
    /\ ProcessAlive
    /\ w_pc[w] = "length"
    /\ shm' = WriteField(local_write_index[w], "length", len)
    /\ w_pc' = [w_pc EXCEPT ![w] = "flow_hash"]
    /\ UNCHANGED <<g_stop_capture, g_write_index, g_shared_buffer,
                   g_capture_thread, local_write_index, flow_counter, slot,
                   api_ret>>
    /\ UNCHANGED <<s_pc, s_buffer>>

\* capture_loop, line 160: slot.flow_hash = ++flow_counter.  The uint32_t
\* counter stays below MaxPackets here, far from 2^31 where the conversion to
\* int changes the value and from 2^32 where the counter wraps.
write_flow_hash(w) ==
    /\ ProcessAlive
    /\ w_pc[w] = "flow_hash"
    /\ flow_counter' = [flow_counter EXCEPT ![w] = flow_counter[w] + 1]
    /\ shm' = WriteField(local_write_index[w], "flow_hash",
                         flow_counter[w] + 1)
    /\ w_pc' = [w_pc EXCEPT ![w] = "is_alert"]
    /\ UNCHANGED <<g_stop_capture, g_write_index, g_shared_buffer,
                   g_capture_thread, local_write_index, slot, api_ret>>
    /\ UNCHANGED <<s_pc, s_buffer>>

\* capture_loop, line 161: slot.is_alert = (flow_counter % 50 == 0)
write_is_alert(w) ==
    /\ ProcessAlive
    /\ w_pc[w] = "is_alert"
    /\ shm' = WriteField(local_write_index[w], "is_alert",
                         flow_counter[w] % ALERT_PERIOD = 0)
    /\ w_pc' = [w_pc EXCEPT ![w] = "publish"]
    /\ UNCHANGED <<g_stop_capture, g_write_index, g_shared_buffer,
                   g_capture_thread, local_write_index, flow_counter, slot,
                   api_ret>>
    /\ UNCHANGED <<s_pc, s_buffer>>

\* capture_loop, line 165: the index after local index i
NextIndex(i) == (i + 1) % MAX_BUFFER_SLOTS

\* capture_loop, lines 165-173: store the advanced index, advance the local
\* one, sleep, and be back at the loop condition
publish_index(w) ==
    /\ ProcessAlive
    /\ w_pc[w] = "publish"
    /\ LET next_index == NextIndex(local_write_index[w])
       IN  /\ g_write_index' = next_index
           /\ local_write_index' = [local_write_index EXCEPT ![w] = next_index]
    /\ w_pc' = [w_pc EXCEPT ![w] = "loop"]
    /\ UNCHANGED <<g_stop_capture, g_shared_buffer, g_capture_thread, shm,
                   flow_counter, slot, api_ret>>
    /\ UNCHANGED <<s_pc, s_buffer>>

\* one step of the thread w running capture_loop, lines 127-180
capture_loop(w) ==
    \/ loop_exit(w)
    \/ loop_iterate(w)
    \/ test_buffer(w)
    \/ bind_slot(w)
    \/ \E now \in Times : write_timestamp(w, now)
    \/ \E len \in Lengths : write_length(w, len)
    \/ write_flow_hash(w)
    \/ write_is_alert(w)
    \/ publish_index(w)

(***************************************************************************)
(* enforce_flow_policy called from several control-plane threads.  The     *)
(* statement enforced_flows_[flow_id] = action (line 101) is two accesses  *)
(* to the std::map: operator[] finds the node of flow_id, inserting one    *)
(* with a value-initialised action when there is none, and the assignment  *)
(* stores the action into that node.  The class holds no lock.             *)
(***************************************************************************)

Callers == 1..MaxCallers

\* FirewallAction{}: the enumerator with value 0
ValueInitialised == "PASS"

\* no thread is inside enforce_flow_policy and the map is sound
CallersInit ==
    /\ t_pc = [c \in Callers |-> "idle"]
    /\ t_flow = [c \in Callers |-> 0]
    /\ t_action = [c \in Callers |-> "none"]
    /\ table_broken = FALSE

\* the caller c is inside operator[] or the assignment of line 101
InTable(c) == t_pc[c] # "idle"

\* line 100: the thread c calls enforce_flow_policy(flow_id, action) and
\* enters operator[]
enforce_call(c, flow_id, action) ==
    /\ t_pc[c] = "idle"
    /\ t_pc' = [t_pc EXCEPT ![c] = "lookup"]
    /\ t_flow' = [t_flow EXCEPT ![c] = flow_id]
    /\ t_action' = [t_action EXCEPT ![c] = action]
    /\ UNCHANGED <<enforced_flows_, table_broken>>

\* line 101, operator[]: the node of flow_id is found, or inserted with a
\* value-initialised action.  An insertion relinks the tree; when another
\* thread is inside operator[] at that time the two accesses race, and the
\* race may leave the map damaged or not.
enforce_lookup(c, damaged) ==
    /\ t_pc[c] = "lookup"
    /\ LET inserts(d) == t_flow[d] \notin DOMAIN enforced_flows_
           races == \E d \in Callers \ {c} :
                        /\ t_pc[d] = "lookup"
                        /\ inserts(c) \/ inserts(d)
       IN  /\ damaged => races
           /\ table_broken' = (table_broken \/ damaged)
    /\ enforced_flows_' =
            [f \in DOMAIN enforced_flows_ \cup {t_flow[c]} |->
                IF f \in DOMAIN enforced_flows_
                THEN enforced_flows_[f] ELSE ValueInitialised]
    /\ t_pc' = [t_pc EXCEPT ![c] = "assign"]
    /\ UNCHANGED <<t_flow, t_action>>

\* line 101, the assignment: the action is stored into the node; when
\* another thread is storing into the same node the two stores race
enforce_assign(c, damaged) ==
    /\ t_pc[c] = "assign"
    /\ LET races == \E d \in Callers \ {c} :
                        /\ t_pc[d] = "assign"
                        /\ t_flow[d] = t_flow[c]
       IN  /\ damaged => races
           /\ table_broken' = (table_broken \/ damaged)
    /\ enforced_flows_' =
            [f \in DOMAIN enforced_flows_ \cup {t_flow[c]} |->
                IF f = t_flow[c] THEN t_action[c] ELSE enforced_flows_[f]]
    /\ t_pc' = [t_pc EXCEPT ![c] = "idle"]
    /\ UNCHANGED <<t_flow, t_action>>

(***************************************************************************)
(* The external reader of the shared buffer (not part of the two source    *)
(* files; modelled from the read-side contract: it keeps its own last-read *)
(* index and polls get_write_index to find the entries between the two)    *)
(***************************************************************************)

\* the reader has read nothing
ReaderInit == r_index = 0

\* the slots the reader takes as published and not yet read: from its
\* last-read index up to, not including, the index get_write_index returns
Unconsumed ==
    {i \in 0..(MAX_BUFFER_SLOTS - 1) :
        IF r_index <= g_write_index
        THEN r_index <= i /\ i < g_write_index
        ELSE i >= r_index \/ i < g_write_index}

\* the reader polls get_write_index, finds an entry it has not read, reads
\* the slot at its last-read index and advances that index by one slot (the
\* reads are capped at the number of records the capture threads can write)
reader_read ==
    /\ ProcessAlive
    /\ r_index # g_write_index
    /\ r_index < MaxWorkers * MaxPackets
    /\ r_index' = (r_index + 1) % MAX_BUFFER_SLOTS

(***************************************************************************)
(* SimpleFlowEnforcer                                                      *)
(***************************************************************************)

\* enum class FirewallAction
FirewallAction == {"PASS", "DROP", "REJECT", "RATE_LIMIT"}

\* the FlowKey values used by the callers
FlowKeys == {7, 42}

\* the uint16_t lengths given to get_decision
PacketLens == {0, 500, 1500, 1501, 2000, 65535}

\* no PacketDecision returned yet
NoDecision == [action |-> "none", rule_id |-> "none"]

\* lines 80-82: the members as initialised
EnforcerInit ==
    /\ default_action_ = "PASS"
    /\ enforced_flows_ = [f \in {} |-> "PASS"]
    /\ e_op = "none"
    /\ e_flow = 0
    /\ e_len = 0
    /\ decision = NoDecision
    /\ default_ret = "none"
    /\ last_set_default = "never"

\* Decide with the size check dropped
DecideNoSizeCheck(len) ==
    [action |-> default_action_, rule_id |-> "DEFAULT_POLICY"]

\* the PacketDecision of get_decision, lines 86-98: the size check, then the
\* default action; enforced_flows_ is not consulted (line 95 is a TODO)
Decide(len) ==
    IF len > JUMBO_LIMIT
    THEN [action |-> "DROP", rule_id |-> "JUMBO_PACKET"]
    ELSE [action |-> default_action_, rule_id |-> "DEFAULT_POLICY"]

\* get_decision(packet_data, len), lines 86-98, for a packet of flow flow
get_decision(flow, len) ==
    /\ decision' = Decide(len)
    /\ e_op' = "get_decision"
    /\ e_flow' = flow
    /\ e_len' = len
    /\ UNCHANGED <<default_action_, enforced_flows_, default_ret,
                   last_set_default>>

\* enforce_flow_policy that inserts an entry but keeps an existing one
enforce_flow_policy_insert_only(flow_id, action) ==
    /\ enforced_flows_' =
            [f \in DOMAIN enforced_flows_ \cup {flow_id} |->
                IF f \in DOMAIN enforced_flows_
                THEN enforced_flows_[f] ELSE action]
    /\ e_op' = "enforce_flow_policy"
    /\ UNCHANGED <<default_action_, e_flow, e_len, decision, default_ret,
                   last_set_default>>

\* enforce_flow_policy(flow_id, action), lines 100-104
enforce_flow_policy(flow_id, action) ==
    /\ enforced_flows_' =
            [f \in DOMAIN enforced_flows_ \cup {flow_id} |->
                IF f = flow_id THEN action ELSE enforced_flows_[f]]
    /\ e_op' = "enforce_flow_policy"
    /\ UNCHANGED <<default_action_, e_flow, e_len, decision, default_ret,
                   last_set_default>>

\* get_default_action(), lines 106-108
get_default_action ==
    /\ default_ret' = default_action_
    /\ e_op' = "get_default_action"
    /\ UNCHANGED <<default_action_, enforced_flows_, e_flow, e_len, decision,
                   last_set_default>>

\* set_default_action with the store dropped
set_default_action_no_store(action) ==
    /\ last_set_default' = action
    /\ e_op' = "set_default_action"
    /\ UNCHANGED <<default_action_, enforced_flows_, e_flow, e_len, decision,
                   default_ret>>

\* set_default_action(action), lines 111-113
set_default_action(action) ==
    /\ default_action_' = action
    /\ last_set_default' = action
    /\ e_op' = "set_default_action"
    /\ UNCHANGED <<enforced_flows_, e_flow, e_len, decision, default_ret>>

(***************************************************************************)
(* Specifications                                                          *)
(***************************************************************************)

\* every component as constructed; the buffer's capacity is the caller's choice
Init ==
    /\ RingInit
    /\ CaptureInit
    /\ EnforcerInit
    /\ ReaderInit
    /\ null_started = {}
    /\ stop_requested = {}
    /\ CallersInit

\* the same with one capacity, where the ring buffer takes no step
InitOneRing == Init /\ capacity_ = 2

\* one producer thread and one consumer thread on a ConcurrentRingBuffer
RingNext ==
    \/ \E item \in Items :
            push_load_tail(item) /\ UNCHANGED notRing
    \/ \E k \in 0..MaxCapacity : push_full(k) /\ UNCHANGED notRing
    \/ \E k \in 0..MaxCapacity : push_not_full(k) /\ UNCHANGED notRing
    \/ push_write /\ UNCHANGED notRing
    \/ push_store /\ UNCHANGED notRing
    \/ pop_load_head /\ UNCHANGED notRing
    \/ \E k \in 0..MaxCapacity : pop_empty(k) /\ UNCHANGED notRing
    \/ \E k \in 0..MaxCapacity : pop_not_empty(k) /\ UNCHANGED notRing
    \/ pop_read /\ UNCHANGED notRing
    \/ pop_store /\ UNCHANGED notRing

RingSpec == Init /\ [][RingNext]_vars

\* the control thread in start_capture_engine (but for the creation of the
\* thread) and get_write_index, and the capture threads
CaptureRun ==
    \/ \E buffer \in Buffers \cup {NULL} :
            start_capture_engine(buffer) /\ UNCHANGED notCapture
    \/ start_set_buffer /\ UNCHANGED notCapture
    \/ start_detach /\ UNCHANGED notCapture
    \/ get_write_index /\ UNCHANGED notCapture
    \/ \E w \in Workers : loop_exit(w) /\ UNCHANGED notCapture
    \/ \E w \in Workers :
            loop_iterate(w) /\ UNCHANGED notCapture
    \/ \E w \in Workers :
            test_buffer(w) /\ UNCHANGED notCapture
    \/ \E w \in Workers : bind_slot(w) /\ UNCHANGED notCapture
    \/ \E w \in Workers, now \in Times :
            write_timestamp(w, now) /\ UNCHANGED notCapture
    \/ \E w \in Workers, len \in Lengths :
            write_length(w, len) /\ UNCHANGED notCapture
    \/ \E w \in Workers :
            write_flow_hash(w) /\ UNCHANGED notCapture
    \/ \E w \in Workers :
            write_is_alert(w) /\ UNCHANGED notCapture
    \/ \E w \in Workers :
            publish_index(w) /\ UNCHANGED notCapture

\* a control thread calling the C functions, and the capture threads
CaptureNext ==
    \/ \E created \in BOOLEAN :
            start_create_thread(created) /\ UNCHANGED notCapture
    \/ stop_capture_engine /\ UNCHANGED notCapture
    \/ CaptureRun

CaptureSpec == InitOneRing /\ [][CaptureNext]_vars

\* stop_capture_engine(), lines 209-217, with the threads remembered that
\* were inside capture_loop when it was called
stop_capture_engine_noted ==
    /\ stop_capture_engine
    /\ stop_requested' = stop_requested \cup {w \in Workers : Running(w)}

\* the capture engine, with the threads running at a stop remembered
FairNext ==
    \/ \E created \in BOOLEAN :
            start_create_thread(created) /\ UNCHANGED notCapture
    \/ stop_capture_engine_noted
            /\ UNCHANGED <<ringVars, enforcerVars, readerVars, callerVars,
                           null_started>>
    \/ CaptureRun

\* the operating system keeps scheduling every capture thread and sleep_for
\* returns; nothing obliges the control thread to call anything
FairCaptureSpec ==
    /\ InitOneRing
    /\ [][FairNext]_vars
    /\ \A w \in Workers :
            WF_vars(capture_loop(w) /\ UNCHANGED notCapture)

\* start_capture_engine, line 199, with the thread remembered when the call
\* was given no buffer (line 194 has stored nullptr to g_shared_buffer)
start_create_thread_noted(created) ==
    /\ start_create_thread(created)
    /\ null_started' =
            IF g_shared_buffer = NULL
            THEN null_started \cup
                    {w \in Workers : w_pc[w] = "unborn" /\ w_pc'[w] # "unborn"}
            ELSE null_started

\* the capture engine, with the threads started without a buffer remembered
SinkNext ==
    \/ \E created \in BOOLEAN :
            start_create_thread_noted(created)
                /\ UNCHANGED <<ringVars, enforcerVars, readerVars, callerVars,
                               stop_requested>>
    \/ stop_capture_engine /\ UNCHANGED notCapture
    \/ CaptureRun

SinkSpec == InitOneRing /\ [][SinkNext]_vars

\* the capture engine and the reader of the shared buffer, at any speed
ReaderNext ==
    \/ CaptureNext
    \/ reader_read
            /\ UNCHANGED <<ringVars, captureVars, enforcerVars, sinkVars,
                           callerVars>>

ReaderSpec == InitOneRing /\ [][ReaderNext]_vars

\* callers of one SimpleFlowEnforcer, one call at a time
EnforcerNext ==
    \/ \E flow \in FlowKeys, len \in PacketLens :
            get_decision(flow, len) /\ UNCHANGED notEnforcer
    \/ \E flow_id \in FlowKeys, action \in FirewallAction :
            enforce_flow_policy(flow_id, action)
                /\ UNCHANGED notEnforcer
    \/ get_default_action /\ UNCHANGED notEnforcer
    \/ \E action \in FirewallAction :
            set_default_action(action) /\ UNCHANGED notEnforcer

EnforcerSpec == InitOneRing /\ [][EnforcerNext]_vars

\* control-plane threads calling enforce_flow_policy at the same time
TableNext ==
    \/ \E c \in Callers, flow_id \in FlowKeys, action \in FirewallAction :
            enforce_call(c, flow_id, action) /\ UNCHANGED notTable
    \/ \E c \in Callers, damaged \in BOOLEAN :
            enforce_lookup(c, damaged) /\ UNCHANGED notTable
    \/ \E c \in Callers, damaged \in BOOLEAN :
            enforce_assign(c, damaged) /\ UNCHANGED notTable

TableSpec == InitOneRing /\ [][TableNext]_vars

(***************************************************************************)
(* Properties of ConcurrentRingBuffer (checked under RingSpec)             *)
(***************************************************************************)

IsPrefix(s, t) ==
    /\ Len(s) <= Len(t)
    /\ \A i \in 1..Len(s) : s[i] = t[i]

\* number of records pushed and not yet popped
Unread == Len(pushed) - Len(popped)

\* C1: with one producer and one consumer, under every interleaving of the
\* load/store steps of push and pop, the records returned by the successful
\* pops are at all times a prefix of the records accepted by the successful
\* pushes, and after as many successful pops as successful pushes the two
\* sequences are equal (nothing lost, duplicated or reordered), also once
\* the indices have wrapped around.
C1_FifoPrefix ==
    /\ IsPrefix(popped, pushed)
    /\ (Len(popped) = Len(pushed) => popped = pushed)

\* more records than the capacity have gone through and all were delivered
C1_Witness ==
    /\ Len(pushed) > capacity_
    /\ Len(pushed) = MaxPushes
    /\ popped = pushed

\* C4: with no intervening pop at most capacity_ - 1 consecutive pushes
\* succeed; from the empty buffer no push fails before capacity_ - 1 records
\* are in, the next one returns false, and the accepted records stay in the
\* slots from the read index on, in push order, until pop returns them; a
\* push that finds a free slot and has every store of head_ in view (as in a
\* run of pushes and pops one after the other) is not refused.
C4_Capacity ==
    /\ pushes_since_pop <= capacity_ - 1
    /\ ((p_pc = "check" /\ next_tail # head_ /\ head_unseen = 0)
            => ~ENABLED (\E k \in 0..MaxCapacity : push_full(k)))
    /\ (popped = <<>> => Len(pushed) <= capacity_ - 1)
    /\ (popped = <<>> /\ p_pc = "idle" /\ push_ret = "false"
            => Len(pushed) = capacity_ - 1)
    /\ \A i \in 1..Unread :
            buffer_[(head_ + i - 1) % capacity_] = pushed[Len(popped) + i]

\* the push after capacity_ - 1 accepted ones has returned false, no pop yet
C4_Witness ==
    /\ popped = <<>>
    /\ p_pc = "idle"
    /\ push_ret = "false"
    /\ Len(pushed) = capacity_ - 1
    /\ capacity_ = MaxCapacity

\* C5: in every reachable state the number of unread records is
\* (tail_ - head_) mod capacity_ and at most capacity_ - 1, the successful
\* pops never outnumber the successful pushes, and both indices stay in
\* 0..capacity_ - 1.
C5_IndexInvariant ==
    /\ head_ \in 0..(capacity_ - 1)
    /\ tail_ \in 0..(capacity_ - 1)
    /\ Len(popped) <= Len(pushed)
    /\ Unread <= capacity_ - 1
    /\ Unread = (tail_ - head_ + capacity_) % capacity_

\* a full buffer whose write index has wrapped around behind the read index
C5_Witness ==
    /\ Unread = capacity_ - 1
    /\ tail_ < head_
    /\ Len(popped) > 0

\* C6: a push on a full buffer (the slot after the write index is the read
\* index) returns false at its load of head_; every push that returns false
\* leaves head_, tail_ and every slot as they were, in that step and in the
\* call's first step; the producer is never left waiting inside push for
\* the consumer.
C6_PushFullNoEffect ==
    /\ [][(p_pc = "check" /\ next_tail = head_ /\ p_pc' # p_pc)
            => (/\ push_ret' = "false"
                /\ p_pc' = "idle"
                /\ head_' = head_
                /\ tail_' = tail_
                /\ buffer_' = buffer_)]_vars
    /\ [][(p_pc = "check" /\ p_pc' = "idle")
            => (/\ push_ret' = "false"
                /\ head_' = head_
                /\ tail_' = tail_
                /\ buffer_' = buffer_)]_vars
    /\ [][(p_pc = "idle" /\ p_pc' # p_pc)
            => (head_' = head_ /\ tail_' = tail_ /\ buffer_' = buffer_)]_vars
    /\ [](p_pc # "idle" =>
            ENABLED (\/ \E k \in 0..MaxCapacity : push_full(k)
                     \/ \E k \in 0..MaxCapacity : push_not_full(k)
                     \/ push_write
                     \/ push_store))

\* a push has returned false on a buffer that holds capacity_ - 1 records
C6_Witness ==
    /\ p_pc = "idle"
    /\ push_ret = "false"
    /\ (tail_ + 1) % capacity_ = head_
    /\ Len(popped) > 0

\* C7 (as stated): a pop on an empty buffer (read index equal to write
\* index) returns false and changes none of head_, tail_, the slots and the
\* caller's record; otherwise, whenever the read index differs from the
\* write index, pop goes on to return true, with the caller's record equal
\* to the slot at the read index and the read index advanced by one modulo
\* capacity_; the consumer is never left waiting inside pop for the producer.
C7_PopEmptyNoEffect ==
    /\ [][(c_pc = "check" /\ current_head = tail_ /\ c_pc' # c_pc)
            => (/\ pop_ret' = "false"
                /\ c_pc' = "idle"
                /\ head_' = head_
                /\ tail_' = tail_
                /\ buffer_' = buffer_
                /\ out' = out)]_vars
    /\ [][(c_pc = "check" /\ current_head # tail_ /\ c_pc' # c_pc)
            => (c_pc' = "read" /\ head_' = head_ /\ out' = out)]_vars
    /\ [][(c_pc = "store" /\ c_pc' # c_pc)
            => (/\ pop_ret' = "true"
                /\ c_pc' = "idle"
                /\ out' = buffer_[head_]
                /\ head_' = (head_ + 1) % capacity_
                /\ tail_' = tail_
                /\ buffer_' = buffer_)]_vars
    /\ [](c_pc # "idle" =>
            ENABLED (\/ \E k \in 0..MaxCapacity : pop_empty(k)
                     \/ \E k \in 0..MaxCapacity : pop_not_empty(k)
                     \/ pop_read
                     \/ pop_store))

\* C7 (amended): pop decides on the value of tail_ that its acquire load
\* returns, which is the latest or an older one.  On an empty buffer that
\* value is the read index and pop returns false; every pop that returns
\* false has loaded a value equal to the read index and changes none of
\* head_, tail_, the slots and the caller's record; a pop that loads another
\* value goes on to return true, with the caller's record equal to the slot
\* at the read index and the read index advanced by one modulo capacity_; a
\* pop that loads the latest value does exactly as the claim states; the
\* consumer is never left waiting inside pop for the producer.
C7_PopOnLoadedTail ==
    /\ [][(c_pc = "check" /\ current_head = tail_ /\ c_pc' # c_pc)
            => (/\ pop_ret' = "false"
                /\ c_pc' = "idle")]_vars
    /\ [][(c_pc = "check" /\ c_pc' = "idle")
            => (/\ pop_ret' = "false"
                /\ tail_unseen' \in 0..tail_unseen
                /\ current_head = TailSeen(tail_unseen')
                /\ head_' = head_
                /\ tail_' = tail_
                /\ buffer_' = buffer_
                /\ out' = out)]_vars
    /\ [][(c_pc = "check" /\ c_pc' = "read")
            => (/\ tail_unseen' \in 0..tail_unseen
                /\ current_head # TailSeen(tail_unseen')
                /\ head_' = head_
                /\ out' = out)]_vars
    /\ [][(c_pc = "check" /\ current_head # tail_ /\ tail_unseen' = 0
                /\ c_pc' # c_pc)
            => c_pc' = "read"]_vars
    /\ [][(c_pc = "store" /\ c_pc' # c_pc)
            => (/\ pop_ret' = "true"
                /\ c_pc' = "idle"
                /\ out' = buffer_[head_]
                /\ head_' = (head_ + 1) % capacity_
                /\ tail_' = tail_
                /\ buffer_' = buffer_)]_vars
    /\ [](c_pc # "idle" =>
            ENABLED (\/ \E k \in 0..MaxCapacity : pop_empty(k)
                     \/ \E k \in 0..MaxCapacity : pop_not_empty(k)
                     \/ pop_read
                     \/ pop_store))

\* a pop returned a record and a later pop returned false on an older value
\* of tail_, while the producer, which had a further record accepted, was
\* refused the next one on an older value of head_; the caller's record is
\* as the earlier pop had set it
C7_Witness ==
    /\ c_pc = "idle"
    /\ pop_ret = "false"
    /\ popped # <<>>
    /\ out = popped[Len(popped)]
    /\ out # DefaultItem
    /\ tail_unseen > 0
    /\ head_ # tail_
    /\ p_pc = "idle"
    /\ push_ret = "false"
    /\ head_unseen > 0
    /\ (tail_ + 1) % capacity_ # head_

(***************************************************************************)
(* Properties of SimpleFlowEnforcer (checked under EnforcerSpec)           *)
(***************************************************************************)

\* C2: a get_decision for a packet of at most 1500 bytes whose flow has an
\* entry A in enforced_flows_, A different from the default action, returns
\* {A, "FLOW_POLICY"}.
C2_FlowPolicyPrecedence ==
    (/\ e_op = "get_decision"
     /\ e_len <= JUMBO_LIMIT
     /\ e_flow \in DOMAIN enforced_flows_
     /\ enforced_flows_[e_flow] # default_action_)
        => decision = [action |-> enforced_flows_[e_flow],
                       rule_id |-> "FLOW_POLICY"]

\* C8: a get_decision with len > 1500 returns {DROP, "JUMBO_PACKET"} whatever
\* enforced_flows_ holds for the packet's flow and whatever the default
\* action is.
C8_JumboPrecedence ==
    (e_op = "get_decision" /\ e_len > JUMBO_LIMIT)
        => decision = [action |-> "DROP", rule_id |-> "JUMBO_PACKET"]

\* an oversized packet of a flow whose entry and whose default both say
\* something other than DROP
C8_Witness ==
    /\ e_op = "get_decision"
    /\ e_len = 2000
    /\ e_flow \in DOMAIN enforced_flows_
    /\ enforced_flows_[e_flow] = "PASS"
    /\ default_action_ = "REJECT"
    /\ decision.rule_id = "JUMBO_PACKET"

\* the action most recently stored by set_default_action, PASS if none was
StoredDefault ==
    IF last_set_default = "never" THEN "PASS" ELSE last_set_default

\* C9: a get_decision for a packet of at most 1500 bytes whose flow has no
\* entry in enforced_flows_ returns {d, "DEFAULT_POLICY"}, d being the action
\* most recently stored by set_default_action (PASS if it was never called),
\* and get_default_action returns the same d.
C9_DefaultFallback ==
    /\ (/\ e_op = "get_decision"
        /\ e_len <= JUMBO_LIMIT
        /\ e_flow \notin DOMAIN enforced_flows_)
            => decision = [action |-> StoredDefault,
                           rule_id |-> "DEFAULT_POLICY"]
    /\ (e_op = "get_default_action" => default_ret = StoredDefault)

\* a 1500-byte packet of a flow without entry, after the default was changed
C9_Witness ==
    /\ e_op = "get_decision"
    /\ e_len = JUMBO_LIMIT
    /\ e_flow \notin DOMAIN enforced_flows_
    /\ DOMAIN enforced_flows_ # {}
    /\ last_set_default = "RATE_LIMIT"
    /\ default_ret = "DROP"
    /\ decision = [action |-> "RATE_LIMIT", rule_id |-> "DEFAULT_POLICY"]

(***************************************************************************)
(* Properties of the capture engine (checked under CaptureSpec, and under  *)
(* FairCaptureSpec where a capture thread has to make progress)            *)
(***************************************************************************)

\* a call of start_capture_engine
StartCalled == \E buffer \in Buffers \cup {NULL} : start_capture_engine(buffer)

\* C3: a start_capture_engine called while a capture thread is running
\* returns 1, starts no further thread and leaves the stop flag, the shared
\* buffer pointer and the published write index as they were.
C3_StartWhileRunningRejected ==
    [][((\E w \in Workers : Running(w)) /\ StartCalled)
            => (/\ api_ret' = Returned("start_capture_engine", 1)
                /\ w_pc' = w_pc
                /\ g_stop_capture' = g_stop_capture
                /\ g_shared_buffer' = g_shared_buffer
                /\ g_write_index' = g_write_index)]_vars

\* the model stops following thread w: it has written MaxPackets packets, or
\* the process has died
OutOfBounds(w) == flow_counter[w] >= MaxPackets \/ ~ProcessAlive

\* C10: a capture thread that was running when stop_capture_engine was
\* called eventually leaves capture_loop, whatever start_capture_engine and
\* stop_capture_engine calls follow, and a thread that has left the loop
\* begins no iteration and publishes no index.
C10_StopTakesEffect ==
    /\ \A w \in Workers :
            (w \in stop_requested) ~> (w_pc[w] = "exited" \/ OutOfBounds(w))
    /\ [][\A w \in Workers :
            w_pc[w] = "exited"
                => (/\ w_pc'[w] = "exited"
                    /\ local_write_index'[w] = local_write_index[w]
                    /\ flow_counter'[w] = flow_counter[w])]_vars

\* C11: over the whole life of the process, whatever start_capture_engine and
\* stop_capture_engine calls are made, every change of the published write
\* index is an advance by exactly one slot modulo MAX_BUFFER_SLOTS.
C11_IndexAdvancesByOne ==
    [][g_write_index' # g_write_index
            => g_write_index' = (g_write_index + 1) % MAX_BUFFER_SLOTS]_vars

\* the thread w stores a field of the slot at its local index in this step
WritesSlot(w) ==
    /\ w_pc[w] \in {"timestamp", "length", "flow_hash", "is_alert"}
    /\ w_pc'[w] # w_pc[w]

\* C12: a slot that the capture loop has filled and published is not written
\* again by the capture loop before the reader has read it, whatever the
\* reader's speed: no capture thread stores a field into a slot that lies
\* between the reader's last-read index and the published index.
C12_PublishedSlotImmutable ==
    [][\A w \in Workers :
            WritesSlot(w) => local_write_index[w] \notin Unconsumed]_vars

\* C13: at most one capture execution context exists at any time: after any
\* sequence of start_capture_engine and stop_capture_engine calls no two
\* threads are inside capture_loop together.
C13_SingleCaptureThread ==
    Cardinality({w \in Workers : Running(w)}) <= 1

\* C14: a capture thread created by start_capture_engine with a null buffer
\* writes no slot and never changes the published write index: it is never
\* past the test of g_shared_buffer (line 153), where the slot is bound,
\* filled and published.
C14_NullBufferWritesNothing ==
    \A w \in null_started : w_pc[w] \in {"loop", "test", "exited"}

\* the slot indices
SlotIndices == 0..(MAX_BUFFER_SLOTS - 1)

\* C15: get_write_index can be called in every state; before any thread was
\* started it returns the initial value 0; it returns the value of
\* g_write_index, which only a capture thread's publishing store changes, to
\* the successor of that thread's local index; the published index, the local
\* indices and every value returned lie in 0..MAX_BUFFER_SLOTS-1, and the
\* successor of every slot index is a slot index again.
C15_WriteIndexRead ==
    /\ [](g_write_index \in SlotIndices)
    /\ [](\A w \in Workers : local_write_index[w] \in SlotIndices)
    /\ [](api_ret.op = "get_write_index" => api_ret.value \in SlotIndices)
    /\ []((\A w \in Workers : w_pc[w] = "unborn")
            => /\ g_write_index = 0
               /\ api_ret.op = "get_write_index" => api_ret.value = 0)
    /\ [](api_ret = NoCall
            => \A i \in SlotIndices : NextIndex(i) \in SlotIndices)
    /\ [](ProcessAlive => ENABLED get_write_index)
    /\ [][(api_ret'.op = "get_write_index" /\ api_ret' # api_ret)
            => api_ret'.value = g_write_index /\ g_write_index' = g_write_index]_vars
    /\ [][g_write_index' # g_write_index
            => \E w \in Workers :
                    /\ w_pc[w] = "publish"
                    /\ g_write_index' = NextIndex(local_write_index[w])]_vars

\* get_write_index has returned the index a thread published last, after
\* that thread wrote MaxPackets records
C15_Witness ==
    /\ api_ret = Returned("get_write_index", MaxPackets)
    /\ g_write_index = MaxPackets
    /\ \E w \in Workers : local_write_index[w] = MaxPackets

\* the step is a call of stop_capture_engine that follows another call
StopCalled ==
    /\ api_ret'.op = "stop_capture_engine"
    /\ api_ret.op # "stop_capture_engine"

\* C16: stop_capture_engine can be called (by the control thread, which is
\* in no other call) whatever the capture threads are doing and
\* returns 0; it sets the stop flag and launches nothing, ends no thread and
\* changes neither the shared buffer nor the published index; called again
\* right after a call of itself it changes nothing at all; and a
\* start_capture_engine that follows it and returns 0 clears the flag and
\* launches a thread at the head of capture_loop.
C16_StopIdempotent ==
    /\ []((ProcessAlive /\ s_pc = "idle") => ENABLED stop_capture_engine)
    /\ [](api_ret.op = "stop_capture_engine" => api_ret.value = 0)
    /\ [](api_ret.op = "stop_capture_engine"
            => ~ENABLED (/\ stop_capture_engine
                         /\ UNCHANGED notCapture
                         /\ vars' # vars))
    /\ [][StopCalled
            => /\ g_stop_capture'
               /\ UNCHANGED <<g_write_index, g_shared_buffer, g_capture_thread,
                              shm, w_pc, local_write_index, flow_counter,
                              slot>>]_vars
    /\ [][(/\ api_ret.op = "stop_capture_engine"
           /\ s_pc = "create"
           /\ s_pc' = "detach")
            => /\ ~g_stop_capture'
               /\ \E w \in Workers :
                    /\ w_pc[w] = "unborn"
                    /\ w_pc'[w] = "loop"
                    /\ local_write_index'[w] = 0]_vars
    /\ [][(/\ api_ret.op = "stop_capture_engine"
           /\ s_pc = "detach"
           /\ s_pc' = "idle")
            => (/\ api_ret' = Returned("start_capture_engine", 0)
                /\ ~g_stop_capture')]_vars

\* stop_capture_engine was called while no thread was running, after a
\* thread had published records and exited, and a thread can still be
\* started
C16_Witness ==
    /\ api_ret = Returned("stop_capture_engine", 0)
    /\ g_stop_capture
    /\ \A w \in Workers : ~Running(w)
    /\ \E w \in Workers : w_pc[w] = "exited"
    /\ \E w \in Workers : w_pc[w] = "unborn"
    /\ g_write_index > 0

\* C17: the mutations of the flow-policy table are serialized: no two
\* threads are inside an access to enforced_flows_ at the same time, and the
\* map is never damaged by overlapping accesses.
C17_TableSerialized ==
    /\ Cardinality({c \in Callers : InTable(c)}) <= 1
    /\ ~table_broken

\* C18: enforce_flow_policy(f, a) can always be called; after it the table
\* entry of f is a, whether f had an entry or not, and every other flow's
\* entry and the default action are as before; every other call
\* (get_decision, get_default_action, set_default_action) leaves the table
\* as it is.
C18_EnforceFrame ==
    /\ [](\A f \in FlowKeys, a \in FirewallAction :
            ENABLED enforce_flow_policy(f, a))
    /\ [][\A f \in FlowKeys, a \in FirewallAction :
            enforce_flow_policy(f, a)
                => /\ f \in DOMAIN enforced_flows_'
                   /\ enforced_flows_'[f] = a
                   /\ DOMAIN enforced_flows_' = DOMAIN enforced_flows_ \cup {f}
                   /\ \A g \in DOMAIN enforced_flows_ \ {f} :
                        enforced_flows_'[g] = enforced_flows_[g]
                   /\ default_action_' = default_action_]_vars
    /\ [][e_op' # "enforce_flow_policy"
            => enforced_flows_' = enforced_flows_]_vars

\* two entries were made, one of them overwritten, and both are still there
\* after set_default_action, get_default_action and get_decision were called
C18_Witness ==
    /\ e_op = "get_decision"
    /\ DOMAIN enforced_flows_ = FlowKeys
    /\ \E f, g \in FlowKeys :
            enforced_flows_[f] = "DROP" /\ enforced_flows_[g] = "REJECT"
    /\ last_set_default = "RATE_LIMIT"
    /\ default_ret = "RATE_LIMIT"

\* the slots between head_ and tail_: published by a tail store and not yet
\* released by a head store
Published ==
    {i \in 0..(capacity_ - 1) :
        IF head_ <= tail_
        THEN head_ <= i /\ i < tail_
        ELSE i >= head_ \/ i < tail_}

\* C19: the producer, between passing the full test and storing tail_, owns
\* the slot at current_tail: it is the slot at tail_, outside the published
\* range, so every earlier record in it was released by a head store; the
\* consumer, between passing the empty test and storing head_, owns the slot
\* at current_head: it is the slot at head_, inside the published range, and
\* holds the oldest record not yet popped; so the producer never writes the
\* slot the consumer is reading.
C19_SlotExclusive ==
    /\ p_pc \in {"write", "store"}
            => /\ current_tail = tail_
               /\ current_tail \notin Published
               /\ next_tail # head_
    /\ c_pc \in {"read", "store"}
            => /\ current_head = head_
               /\ current_head \in Published
    /\ c_pc = "read"
            => /\ Len(pushed) > Len(popped)
               /\ buffer_[current_head] = pushed[Len(popped) + 1]
    /\ (p_pc \in {"write", "store"} /\ c_pc \in {"read", "store"})
            => current_tail # current_head

\* the producer is about to write one slot while the consumer is about to
\* read another, in a buffer that has wrapped around
C19_Witness ==
    /\ p_pc = "write"
    /\ c_pc = "read"
    /\ current_tail # current_head
    /\ current_tail < current_head
    /\ Len(pushed) >= capacity_
    /\ capacity_ > 2

\* the thread w has stored some fields of the slot at its local index and
\* not yet all four
MidWrite(w) == w_pc[w] \in {"length", "flow_hash", "is_alert"}

\* C20: at the step that stores g_write_index = (i + 1) mod MAX_BUFFER_SLOTS
\* the slot i holds the four fields written by the iteration that publishes
\* it and no capture thread is in the middle of writing slot i, after any
\* sequence of start_capture_engine and stop_capture_engine calls.
C20_PublishAfterFill ==
    [][\A w \in Workers :
        (w_pc[w] = "publish" /\ w_pc'[w] = "loop")
            => LET i == local_write_index[w]
               IN  /\ g_write_index' = NextIndex(i)
                   /\ SlotAt(i).timestamp \in Times
                   /\ SlotAt(i).length \in Lengths
                   /\ SlotAt(i).flow_hash = flow_counter[w]
                   /\ SlotAt(i).is_alert = (flow_counter[w] % ALERT_PERIOD = 0)
                   /\ \A v \in Workers \ {w} :
                        ~(MidWrite(v) /\ local_write_index[v] = i)]_vars

====
